---- MODULE Spec2Model ----
(***************************************************************************)
(* Model of ImageToHeicConverter.cpp: the worker pool of wmain (spawn,     *)
(* join, summary) and the Worker thread function (per-thread COM init,     *)
(* fetch_add on the shared cursor, ConvertImage into a temporary path,     *)
(* DeleteFileW / MoveFileW publish, status line under console_mutex,       *)
(* success / failure counters).                                            *)
(* Spec starts where wmain has built the queue; MainSpec is the whole      *)
(* program from the command line on (HEVC probe, argument loop, output     *)
(* directory, enumeration, then the same pool) on a host with one          *)
(* processor; FairSpec is Spec with a fair scheduler.                      *)
(*                                                                         *)
(* A path is a record [dir, name]; a file name is the sequence of its      *)
(* dot-separated components (<<"a","jpg">> is a.jpg).  The output          *)
(* directory is modelled as a map from paths to file contents.  A file     *)
(* that a ConvertImage call has open for writing cannot be deleted, moved  *)
(* or opened by another thread (Windows sharing rules).                    *)
(***************************************************************************)
EXTENDS Integers, Sequences, FiniteSets, TLC

\* ---------------------------------------------------------------- bounds
MaxThreads == 2
MaxFiles == 2
MaxInputPaths == 2

\* line 150: float quality = -1.0f, in hundredths
DefaultQuality == -100

\* ---------------------------------------------------------------- paths
outputDir == "out"

NoPath == [dir |-> "", name |-> <<>>]

\* The files the enumeration of the input paths can meet.
AllSources ==
  << [dir |-> "d1", name |-> <<"a", "jpg">>],
     [dir |-> "d1", name |-> <<"a", "png">>],
     [dir |-> "d2", name |-> <<"b", "JPG">>],
     [dir |-> "d1", name |-> <<"c", "heic">>] >>

ConversionMode == {"ToHeic", "ToJpeg"}

\* ::tolower on the extensions that occur
ToLower(s) ==
  CASE s = "JPG" -> "jpg"
    [] s = "HEIC" -> "heic"
    [] OTHER -> s

\* PathFindExtensionW: the text after the last dot, "" when there is none
PathFindExtension(name) ==
  IF Len(name) > 1 THEN name[Len(name)] ELSE ""

IsSupportedInputFile(path, m) ==
  LET extension == ToLower(PathFindExtension(path.name))
  IN  IF extension = "" THEN FALSE
      ELSE IF m = "ToHeic"
           THEN extension \in {"jpg", "jpeg", "png", "bmp", "tiff", "gif"}
           ELSE extension = "heic"

TargetExtension(m) == IF m = "ToJpeg" THEN "jpg" ELSE "heic"

\* PathFindFileNameW: the path without its directory
PathFindFileName(path) == path.name

\* PathCchRenameExtension: replace the extension, or append one
PathCchRenameExtension(name, ext) ==
  IF Len(name) > 1 THEN SubSeq(name, 1, Len(name) - 1) \o <<ext>>
  ELSE name \o <<ext>>

\* finalOutPath of a source file (PathCchCombine + PathCchRenameExtension)
FinalOutPath(src, m) ==
  [dir |-> outputDir,
   name |-> PathCchRenameExtension(PathFindFileName(src), TargetExtension(m))]

\* tempOutPath = finalOutPath + L".tmp"
TempOutPath(src, m) ==
  [dir |-> outputDir, name |-> FinalOutPath(src, m).name \o <<"tmp">>]

\* ---------------------------------------------------------------- state
VARIABLES
  mode,            \* ConversionMode selected by wmain
  filesToProcess,  \* the queue: sequence of source paths (index i is [i+1])
  num_threads,     \* number of workers wmain launches
  argv,            \* the command line after the program name
  inputPaths,      \* the paths given after -i
  outDirAccess,    \* what the file system holds at outputDir
  quality,         \* float quality, in hundredths (50 is 0.5f, -100 is -1.0f)
  main_pc,         \* position of wmain
  spawned,         \* threads created so far
  joined,          \* threads joined so far
  summary,         \* the counters as read for the summary line
  exitCode,        \* wmain's return value, -1 while it runs
  task_index,      \* std::atomic<size_t> cursor
  success_count,   \* std::atomic<int>
  fail_count,      \* std::atomic<int>
  console_mutex,   \* 0 = free, else the worker that holds it
  console,         \* the lines written to stdout, in order
  fs,              \* output directory: path -> file content
  pc,              \* position of each worker
  index,           \* worker local: claimed index
  final_success,   \* worker local
  status_message,  \* worker local
  com_ok,          \* history: number of workers whose CoInitializeEx succeeded
  handed,          \* history: index -> number of fetch_add calls that returned it
  renamed,         \* history: index -> number of MoveFileW calls that succeeded
  codecCalls,      \* history: index -> number of ConvertImage calls
  folded           \* history: index -> outcomes added to the counters

vars == << mode, filesToProcess, num_threads, argv, inputPaths, outDirAccess,
           quality, main_pc, spawned, joined, summary,
           exitCode, task_index, success_count, fail_count, console_mutex, console,
           fs, pc, index, final_success, status_message, com_ok, handed, renamed,
           codecCalls, folded >>

N == Len(filesToProcess)
Workers == 1 .. num_threads
Indices == 0 .. (N - 1)

Src(i) == filesToProcess[i + 1]
Final(i) == FinalOutPath(Src(i), mode)
\* a worker that encodes straight into the final path
TempIsFinal(i) == Final(i)

Temp(i) == TempOutPath(Src(i), mode)

\* ---------------------------------------------------------------- files
Absent == [kind |-> "absent", src |-> NoPath, writer |-> 0]
Prior == [kind |-> "prior", src |-> NoPath, writer |-> 0]
Stale == [kind |-> "partial", src |-> NoPath, writer |-> 0]
Partial(s, w) == [kind |-> "partial", src |-> s, writer |-> w]
Complete(s) == [kind |-> "new", src |-> s, writer |-> 0]

Exists(p) == fs[p].kind # "absent"
HeldByOther(p, w) == fs[p].writer \notin {0, w}

\* DeleteFileW: removes the file unless it is missing or open elsewhere
DeleteFile(f, p, w) ==
  IF f[p].kind # "absent" /\ f[p].writer \in {0, w}
  THEN [f EXCEPT ![p] = Absent] ELSE f

\* MoveFileW can succeed only if the source exists, is not open, and the
\* destination does not exist
CanMove(f, from, to, w) ==
  /\ f[from].kind # "absent"
  /\ f[from].writer = 0
  /\ f[to].kind = "absent"

MoveFile(f, from, to) ==
  [f EXCEPT ![to] = f[from], ![from] = Absent]

\* ---------------------------------------------------------------- Init
\* queues: the supported files of a selection of AllSources, in order
Queues(m) ==
  { q \in UNION { [1 .. n -> 1 .. Len(AllSources)] : n \in 1 .. MaxFiles } :
      /\ \A k \in DOMAIN q : IsSupportedInputFile(AllSources[q[k]], m)
      /\ \A k \in DOMAIN q : k > 1 => q[k - 1] < q[k] }

OutPaths(files, m) ==
  { FinalOutPath(files[k], m) : k \in DOMAIN files } \cup
  { TempOutPath(files[k], m) : k \in DOMAIN files }

IsTemp(p) == p.name[Len(p.name)] = "tmp"

\* The output directory before the run: empty, holding the outputs of an
\* earlier complete run, or holding the temporary files of a killed run.
OutputDirStates == {"empty", "earlier_run", "killed_run"}

InitialFile(d, p) ==
  CASE d = "earlier_run" /\ ~IsTemp(p) -> Prior
    [] d = "killed_run" /\ IsTemp(p) -> Stale
    [] OTHER -> Absent

Init ==
  /\ mode \in ConversionMode
  /\ \E q \in Queues(mode) : filesToProcess = [k \in DOMAIN q |-> AllSources[q[k]]]
  /\ num_threads \in 1 .. MaxThreads
  /\ argv = << >>
  /\ inputPaths = << >>
  /\ outDirAccess = "writable"
  /\ quality = DefaultQuality
  /\ main_pc = "spawn"
  /\ spawned = 0
  /\ joined = 0
  /\ summary = << -1, -1 >>
  /\ exitCode = -1
  /\ task_index = 0
  /\ success_count = 0
  /\ fail_count = 0
  /\ console_mutex = 0
  /\ console = << >>
  /\ \E d \in OutputDirStates :
       fs = [p \in OutPaths(filesToProcess, mode) |-> InitialFile(d, p)]
  /\ pc = [w \in Workers |-> "unborn"]
  /\ index = [w \in Workers |-> 0]
  /\ final_success = [w \in Workers |-> FALSE]
  /\ status_message = [w \in Workers |-> ""]
  /\ com_ok = 0
  /\ handed = [i \in Indices |-> 0]
  /\ renamed = [i \in Indices |-> 0]
  /\ codecCalls = [i \in Indices |-> 0]
  /\ folded = [i \in Indices |-> << >>]


\* ---------------------------------------------------------------- helpers
\* a cursor that advances by two
FetchAddTwo(v) == v + 2

\* a cursor that is read but not advanced (load() in place of fetch_add)
FetchAddLoadOnly(v) == v

\* task_index->fetch_add(1): the value stored by the call (the value
\* returned is the one read)

FetchAdd(v) == v + 1

\* the two branches of lines 118-123 exchanged
FoldSwapped(ok, s, f) == IF ok THEN << s, f + 1 >> ELSE << s + 1, f >>

\* counters that drop the failed outcomes
FoldSuccessOnly(ok, s, f) == IF ok THEN << s + 1, f >> ELSE << s, f >>

\* lines 118-123: the pair (success_count, fail_count) after the outcome is
\* added

Fold(ok, s, f) == IF ok THEN << s + 1, f >> ELSE << s, f + 1 >>

\* a loop that stops one index early
QueueExhaustedEarly(idx) == idx + 1 >= N

\* line 58: the fetched index is past the end of the queue
QueueExhausted(idx) == idx >= N

\* a lock that never blocks
MutexAlwaysFree == TRUE

\* std::lock_guard can take console_mutex only when nobody holds it

MutexFree == console_mutex = 0

\* a join that does not wait (detached threads)
JoinableAtOnce(w) == TRUE

\* t.join() returns only when the thread function has returned

Joinable(w) == pc[w] = "done"

\* a loop that converts a failed task again
AfterFoldRetry(ok) == IF ok THEN "claim" ELSE "convert"

\* a loop that ends at the first failed task
AfterFoldStop(ok) == IF ok THEN "claim" ELSE "done"

\* the worker's position after it has added to a counter: the while (true)
\* loop goes back to the fetch_add whatever the outcome was

AfterFold(ok) == "claim"

\* an initialisation failure that falls through into the loop
AfterInitErrorNoReturn == "claim"

\* line 53: after the error line the thread function returns
AfterInitError == "done"

SUCCEEDED(hr) == hr = "S_OK"

\* failures ConvertImage can return before the output stream is opened, and
\* after it
EarlyFailures == {"WINCODEC_ERR_BADHEADER", "E_ACCESSDENIED"}
LateFailures == {"ERROR_DISK_FULL"}

\* lines 97-104
StatusOfHr(hr) ==
  CASE hr = "E_ACCESSDENIED" -> "FAILED (Permission Denied)"
    [] hr = "ERROR_DISK_FULL" -> "FAILED (Disk Full)"
    [] hr = "WINCODEC_ERR_BADHEADER" -> "FAILED (Corrupt Input File)"
    [] OTHER -> "FAILED (Code)"

\* GetLastError after a failed MoveFileW: the move was refused although it
\* was possible, or it was impossible (source missing or open, destination
\* present)
MoveError(f, from, to, w) ==
  IF CanMove(f, from, to, w) THEN "ERROR_ACCESS_DENIED" ELSE "ERROR_OTHER"

\* lines 84-92
StatusOfMoveError(lastError) ==
  IF lastError = "ERROR_ACCESS_DENIED"
  THEN "FAILED (Permission Denied to Finalize)"
  ELSE "FAILED (Move Error)"

\* The lines of stdout.  A status line "[ord/total] Converting .. ... msg" is
\* kept with its ordinal, its total and whether its message is OK or one of
\* the FAILED messages.
IsOK(msg) == msg = "OK"

\* a status line that prints the index instead of index + 1
StatusLineZeroBased(w) ==
  [kind |-> "status", ord |-> index[w], total |-> N,
   ok |-> IsOK(status_message[w])]

StatusLine(w) ==
  [kind |-> "status", ord |-> index[w] + 1, total |-> N,
   ok |-> IsOK(status_message[w])]

InitErrorLine(w) ==
  [kind |-> "initerr", ord |-> 0, total |-> 0, ok |-> FALSE]

SummaryLine(s, f) ==
  [kind |-> "summary", ord |-> s, total |-> f, ok |-> TRUE]

\* ---------------------------------------------------------------- wmain
mainVars == << main_pc, spawned, joined, summary, exitCode >>
cfgVars == << mode, filesToProcess, num_threads, argv, inputPaths, outDirAccess,
             quality >>
sharedVars == << task_index, success_count, fail_count, console_mutex, console, fs >>
localVars == << index, final_success, status_message >>
histVars == << com_ok, handed, renamed, codecCalls, folded >>

\* line 217: threads.emplace_back(Worker, ...) for i = 0 .. num_threads-1
Spawn ==
  /\ main_pc = "spawn"
  /\ spawned < num_threads
  /\ pc' = [pc EXCEPT ![spawned + 1] = "init"]
  /\ spawned' = spawned + 1
  /\ main_pc' = IF spawned + 1 = num_threads THEN "join" ELSE "spawn"
  /\ UNCHANGED << joined, summary, exitCode, cfgVars, sharedVars, localVars,
                  histVars >>

\* line 218: t.join() for each thread in order
Join ==
  /\ main_pc = "join"
  /\ joined < num_threads
  /\ Joinable(joined + 1)
  /\ joined' = joined + 1
  /\ main_pc' = IF joined + 1 = num_threads THEN "summary" ELSE "join"
  /\ UNCHANGED << spawned, summary, exitCode, pc, cfgVars, sharedVars, localVars,
                  histVars >>

\* line 220: the summary line reads both counters
Summary ==
  /\ main_pc = "summary"
  /\ summary' = << success_count, fail_count >>
  /\ console' = Append(console, SummaryLine(success_count, fail_count))
  /\ main_pc' = "exit"
  /\ UNCHANGED << spawned, joined, exitCode, pc, cfgVars, task_index,
                  success_count, fail_count, console_mutex, fs, localVars, histVars >>

\* lines 221-222: CoUninitialize(); return 0
Exit ==
  /\ main_pc = "exit"
  /\ main_pc' = "done"
  /\ exitCode' = 0
  /\ UNCHANGED << spawned, joined, summary, pc, cfgVars, sharedVars, localVars,
                  histVars >>

\* ---------------------------------------------------------------- Worker
\* line 49: CoInitializeEx succeeds or fails
CoInit(w) ==
  /\ pc[w] = "init"
  /\ \E hr \in {"S_OK", "E_FAIL"} :
       /\ pc' = [pc EXCEPT ![w] = IF SUCCEEDED(hr) THEN "claim" ELSE "initerr_lock"]
       /\ com_ok' = IF SUCCEEDED(hr) THEN com_ok + 1 ELSE com_ok
  /\ UNCHANGED << mainVars, cfgVars, sharedVars, localVars, handed, renamed,
                  codecCalls, folded >>

\* line 51: lock_guard taken on the failure path
InitErrLock(w) ==
  /\ pc[w] = "initerr_lock"
  /\ MutexFree
  /\ console_mutex' = w
  /\ pc' = [pc EXCEPT ![w] = "initerr_print"]
  /\ UNCHANGED << mainVars, cfgVars, task_index, success_count, fail_count,
                  console, fs, localVars, histVars >>

\* lines 52-53: print the error, return (the lock_guard releases the mutex)
InitErrPrint(w) ==
  /\ pc[w] = "initerr_print"
  /\ console' = Append(console, InitErrorLine(w))
  /\ console_mutex' = 0
  /\ pc' = [pc EXCEPT ![w] = AfterInitError]
  /\ UNCHANGED << mainVars, cfgVars, task_index, success_count, fail_count,
                  fs, localVars, histVars >>

\* lines 57-60: index = task_index->fetch_add(1); when it is past the end the
\* loop is left and the thread function returns (line 126, CoUninitialize)
Claim(w) ==
  /\ pc[w] = "claim"
  /\ task_index' = FetchAdd(task_index)
  /\ IF QueueExhausted(task_index)
     THEN /\ pc' = [pc EXCEPT ![w] = "done"]
          /\ UNCHANGED << index, handed >>
     ELSE /\ pc' = [pc EXCEPT ![w] = "convert"]
          /\ index' = [index EXCEPT ![w] = task_index]
          /\ handed' = [handed EXCEPT ![task_index] = @ + 1]
  /\ UNCHANGED << mainVars, cfgVars, success_count, fail_count, console_mutex,
                  console, fs, final_success, status_message, com_ok, renamed,
                  codecCalls, folded >>

\* lines 72, 300-317: ConvertImage is entered; it fails before the output
\* stream exists, or fails to open it, or creates / truncates the temporary
\* file and goes on to encode
CodecOpen(w) ==
  /\ pc[w] = "convert"
  /\ codecCalls' = [codecCalls EXCEPT ![index[w]] = @ + 1]
  /\ \/ \E hr \in EarlyFailures :
          /\ status_message' = [status_message EXCEPT ![w] = StatusOfHr(hr)]
          /\ pc' = [pc EXCEPT ![w] = "deltemp"]
          /\ fs' = fs
     \/ /\ HeldByOther(Temp(index[w]), w)
        /\ status_message' = [status_message EXCEPT ![w] = StatusOfHr("ERROR_SHARING_VIOLATION")]
        /\ pc' = [pc EXCEPT ![w] = "deltemp"]
        /\ fs' = fs
     \/ /\ outDirAccess \in {"writable", "created"}
        /\ ~HeldByOther(Temp(index[w]), w)
        /\ fs' = [fs EXCEPT ![Temp(index[w])] = Partial(Src(index[w]), w)]
        /\ pc' = [pc EXCEPT ![w] = "encoding"]
        /\ UNCHANGED status_message
  /\ UNCHANGED << mainVars, cfgVars, task_index, success_count, fail_count,
                  console_mutex, console, index, final_success, com_ok, handed,
                  renamed, folded >>

\* lines 319-354: the encoder writes the file; ConvertImage returns S_OK with
\* the complete file, or a failure with what was written so far.  On return
\* the stream is released.
CodecFinish(w) ==
  /\ pc[w] = "encoding"
  /\ \/ /\ fs' = [fs EXCEPT ![Temp(index[w])] = Complete(Src(index[w]))]
        /\ pc' = [pc EXCEPT ![w] = "delfinal"]
        /\ UNCHANGED status_message
     \/ \E hr \in LateFailures :
          /\ fs' = [fs EXCEPT ![Temp(index[w])].writer = 0]
          /\ status_message' = [status_message EXCEPT ![w] = StatusOfHr(hr)]
          /\ pc' = [pc EXCEPT ![w] = "deltemp"]
  /\ UNCHANGED << mainVars, cfgVars, task_index, success_count, fail_count,
                  console_mutex, console, index, final_success, histVars >>

\* line 78: DeleteFileW(finalOutPath)
DeleteFinal(w) ==
  /\ pc[w] = "delfinal"
  /\ fs' = DeleteFile(fs, Final(index[w]), w)
  /\ pc' = [pc EXCEPT ![w] = "move"]
  /\ UNCHANGED << mainVars, cfgVars, task_index, success_count, fail_count,
                  console_mutex, console, localVars, histVars >>

\* lines 79-92: MoveFileW(tempOutPath, finalOutPath)
Move(w) ==
  /\ pc[w] = "move"
  /\ \/ /\ CanMove(fs, Temp(index[w]), Final(index[w]), w)
        /\ fs' = MoveFile(fs, Temp(index[w]), Final(index[w]))
        /\ final_success' = [final_success EXCEPT ![w] = TRUE]
        /\ status_message' = [status_message EXCEPT ![w] = "OK"]
        /\ renamed' = [renamed EXCEPT ![index[w]] = @ + 1]
        /\ pc' = [pc EXCEPT ![w] = "report_lock"]
     \/ LET lastError == MoveError(fs, Temp(index[w]), Final(index[w]), w) IN
          /\ fs' = fs
          /\ status_message' = [status_message EXCEPT ![w] = StatusOfMoveError(lastError)]
          /\ pc' = [pc EXCEPT ![w] = "deltemp"]
          /\ UNCHANGED << final_success, renamed >>
  /\ UNCHANGED << mainVars, cfgVars, task_index, success_count, fail_count,
                  console_mutex, console, index, com_ok, handed, codecCalls,
                  folded >>

\* lines 93 and 105: DeleteFileW(tempOutPath) on both failure paths
DeleteTemp(w) ==
  /\ pc[w] = "deltemp"
  /\ fs' = DeleteFile(fs, Temp(index[w]), w)
  /\ pc' = [pc EXCEPT ![w] = "report_lock"]
  /\ UNCHANGED << mainVars, cfgVars, task_index, success_count, fail_count,
                  console_mutex, console, localVars, histVars >>

\* line 109: lock_guard on console_mutex
ReportLock(w) ==
  /\ pc[w] = "report_lock"
  /\ MutexFree
  /\ console_mutex' = w
  /\ pc' = [pc EXCEPT ![w] = "report_print"]
  /\ UNCHANGED << mainVars, cfgVars, task_index, success_count, fail_count,
                  console, fs, localVars, histVars >>

\* lines 111-116: one status line, then the block ends and the lock is released
ReportPrint(w) ==
  /\ pc[w] = "report_print"
  /\ console' = Append(console, StatusLine(w))
  /\ console_mutex' = 0
  /\ pc' = [pc EXCEPT ![w] = "count"]
  /\ UNCHANGED << mainVars, cfgVars, task_index, success_count, fail_count,
                  fs, localVars, histVars >>

\* lines 118-123: fold the outcome into the counters; the iteration's locals
\* go out of scope
Count(w) ==
  /\ pc[w] = "count"
  /\ success_count' = Fold(final_success[w], success_count, fail_count)[1]
  /\ fail_count' = Fold(final_success[w], success_count, fail_count)[2]
  /\ folded' = [folded EXCEPT ![index[w]] = Append(@, final_success[w])]
  /\ final_success' = [final_success EXCEPT ![w] = FALSE]
  /\ status_message' = [status_message EXCEPT ![w] = ""]
  /\ index' = [index EXCEPT ![w] = 0]
  /\ pc' = [pc EXCEPT ![w] = AfterFold(final_success[w])]
  /\ UNCHANGED << mainVars, cfgVars, task_index, console_mutex, console, fs,
                  com_ok, handed, renamed, codecCalls >>

Next ==
  \/ Spawn
  \/ Join
  \/ Summary
  \/ Exit
  \/ \E w \in Workers : CoInit(w)
  \/ \E w \in Workers : InitErrLock(w)
  \/ \E w \in Workers : InitErrPrint(w)
  \/ \E w \in Workers : Claim(w)
  \/ \E w \in Workers : CodecOpen(w)
  \/ \E w \in Workers : CodecFinish(w)
  \/ \E w \in Workers : DeleteFinal(w)
  \/ \E w \in Workers : Move(w)
  \/ \E w \in Workers : DeleteTemp(w)
  \/ \E w \in Workers : ReportLock(w)
  \/ \E w \in Workers : ReportPrint(w)
  \/ \E w \in Workers : Count(w)

Spec == Init /\ [][Next]_vars

\* The threads are scheduled by the operating system and every ConvertImage
\* call returns: as long as some thread can take a step, a step is taken.
FairSpec == Spec /\ WF_vars(Next)

\* ---------------------------------------------------------------- wmain, lines 130-214
\* The command line is the sequence of the arguments after the program name.
\* a parser that knows the short help option only
HelpOptionsShortOnly == {"-h"}

\* line 155
HelpOptions == {"-h", "--help"}

\* argv[i + 1][0] == L'-'
StartsWithDash(arg) ==
  arg \in {"-h", "--help", "-i", "-o", "-q", "--to", "-5"}

\* The paths that are named after -i, and what GetFileAttributesW reports
\* for them.
InputPathArgs == {"d1", "d2", "d1\\c.heic", "nowhere"}

GetFileAttributes(path) ==
  CASE path \in {"d1", "d2"} -> "FILE_ATTRIBUTE_DIRECTORY"
    [] path = "d1\\c.heic" -> "FILE_ATTRIBUTE_NORMAL"
    [] OTHER -> "INVALID_FILE_ATTRIBUTES"

\* the file a path argument names
FileOf(path) == [dir |-> "d1", name |-> <<"c", "heic">>]

\* FindFirstFileW / FindNextFileW on path\*: the files of the directory, and
\* for d1 a subdirectory after them
FindFiles(path) ==
  LET InDir(src) == src.dir = path
      files == SelectSeq(AllSources, InDir)
      found == [k \in DOMAIN files |->
                  [path |-> files[k], dwFileAttributes |-> "FILE_ATTRIBUTE_NORMAL"]]
  IN  IF path = "d1"
      THEN Append(found, [path |-> [dir |-> "d1", name |-> <<"sub">>],
                          dwFileAttributes |-> "FILE_ATTRIBUTE_DIRECTORY"])
      ELSE found

\* The values that are given after -q.
QualityArgs == {"0", "50", "100", "150", "-5", "abc", "50abc", "1e40"}

\* std::stof: the value of the longest prefix that reads as a number;
\* invalid_argument when no prefix does, out_of_range when the value does not
\* fit a float
Stof(arg) ==
  CASE arg = "0" -> [thrown |-> "", value |-> 0]
    [] arg = "50" -> [thrown |-> "", value |-> 50]
    [] arg = "100" -> [thrown |-> "", value |-> 100]
    [] arg = "150" -> [thrown |-> "", value |-> 150]
    [] arg = "-5" -> [thrown |-> "", value |-> -5]
    [] arg = "50abc" -> [thrown |-> "", value |-> 50]
    [] arg = "1e40" -> [thrown |-> "std::out_of_range", value |-> 0]
    [] OTHER -> [thrown |-> "std::invalid_argument", value |-> 0]

\* The lines wmain writes to stdout before the pool starts.
Line(kind, path) == [kind |-> kind, path |-> path]

\* line 158: quality = std::stof(argv[++i]) / 100.0f, the range check and the
\* catch clause; the result is the quality in hundredths and the lines printed
ParseQuality(arg) ==
  LET r == Stof(arg)
  IN  IF r.thrown # ""
      THEN [quality |-> DefaultQuality, out |-> << Line("warning_quality_invalid", arg) >>]
      ELSE IF r.value < 0 \/ r.value > 100
      THEN [quality |-> DefaultQuality, out |-> << Line("warning_quality_range", arg) >>]
      ELSE [quality |-> r.value, out |-> << >>]

\* line 156: the number of arguments after position i that -i takes
InputRun(args, i) ==
  CHOOSE n \in 0 .. (Len(args) - i) :
    /\ \A k \in 1 .. n : ~StartsWithDash(args[i + k])
    /\ i + n = Len(args) \/ StartsWithDash(args[i + n + 1])

\* lines 148-151: the locals before the loop
ParseStart ==
  [help |-> FALSE, inputPaths |-> << >>, outputDir |-> "",
   quality |-> DefaultQuality, mode |-> "ToHeic", out |-> << >>]

\* lines 153-169: the argument loop from position i on
RECURSIVE ParseArgs(_, _, _)
ParseArgs(args, i, st) ==
  IF i > Len(args) THEN st
  ELSE
    LET arg == args[i]
        more == i + 1 <= Len(args)
    IN  IF arg \in HelpOptions THEN [st EXCEPT !.help = TRUE]
        ELSE IF arg = "-i"
        THEN LET n == InputRun(args, i)
             IN  ParseArgs(args, i + n + 1,
                           [st EXCEPT !.inputPaths = @ \o SubSeq(args, i + 1, i + n)])
        ELSE IF arg = "-o"
        THEN IF more
             THEN ParseArgs(args, i + 2, [st EXCEPT !.outputDir = args[i + 1]])
             ELSE ParseArgs(args, i + 1, st)
        ELSE IF arg = "-q"
        THEN IF more
             THEN LET q == ParseQuality(args[i + 1])
                  IN  ParseArgs(args, i + 2,
                                [st EXCEPT !.quality = q.quality, !.out = @ \o q.out])
             ELSE ParseArgs(args, i + 1, st)
        ELSE IF arg = "--to"
        THEN IF more
             THEN ParseArgs(args, i + 2,
                            IF ToLower(args[i + 1]) \in {"jpeg", "jpg"}
                            THEN [st EXCEPT !.mode = "ToJpeg"] ELSE st)
             ELSE ParseArgs(args, i + 1, st)
        ELSE ParseArgs(args, i + 1, st)

\* line 198: a non-directory entry of a scanned directory is pushed when it
\* is supported, and skipped otherwise
ScanEntry(entry, m) ==
  IF IsSupportedInputFile(entry.path, m)
  THEN [files |-> << entry.path >>, out |-> << >>]
  ELSE [files |-> << >>, out |-> << >>]

\* lines 193-200: the entries of a directory from position k on
RECURSIVE ScanDirectory(_, _, _)
ScanDirectory(entries, k, m) ==
  IF k > Len(entries) THEN [files |-> << >>, out |-> << >>]
  ELSE
    LET rest == ScanDirectory(entries, k + 1, m)
    IN  IF entries[k].dwFileAttributes = "FILE_ATTRIBUTE_DIRECTORY" THEN rest
        ELSE LET e == ScanEntry(entries[k], m)
             IN  [files |-> e.files \o rest.files, out |-> e.out \o rest.out]

\* lines 190-203: one input path
EnumeratePath(path, m) ==
  LET attributes == GetFileAttributes(path)
  IN  IF attributes = "INVALID_FILE_ATTRIBUTES"
      THEN [files |-> << >>, out |-> << Line("warning_not_found", path) >>]
      ELSE IF attributes = "FILE_ATTRIBUTE_DIRECTORY"
      THEN ScanDirectory(FindFiles(path), 1, m)
      ELSE IF IsSupportedInputFile(FileOf(path), m)
      THEN [files |-> << FileOf(path) >>, out |-> << >>]
      ELSE [files |-> << >>, out |-> << Line("warning_unsupported", FileOf(path)) >>]

\* lines 189-203: the input paths from position k on
RECURSIVE EnumerateInputs(_, _, _)
EnumerateInputs(paths, k, m) ==
  IF k > Len(paths) THEN [files |-> << >>, out |-> << >>]
  ELSE
    LET first == EnumeratePath(paths[k], m)
        rest == EnumerateInputs(paths, k + 1, m)
    IN  [files |-> first.files \o rest.files, out |-> first.out \o rest.out]

\* The command lines: an optional help option in front or at the end, and
\* between them the -i, -o, -q and --to clauses.
InputClauses ==
  {<< >>} \cup
  { <<"-i">> \o ps :
      ps \in UNION { [1 .. n -> InputPathArgs] : n \in 0 .. MaxInputPaths } }

OutputClauses == { << >>, <<"-o", "out">>, <<"-o", "-h">> }

QualityClauses == {<< >>} \cup { <<"-q", q>> : q \in QualityArgs }

FormatClauses == { << >>, <<"--to", "JPG">>, <<"--to", "heic">> }

HelpClauses == { << << >>, << >> >>, << <<"-h">>, << >> >>, << << >>, <<"--help">> >> }

CommandLines ==
  { h[1] \o i \o o \o q \o t \o h[2] :
      h \in HelpClauses, i \in InputClauses, o \in OutputClauses,
      q \in QualityClauses, t \in FormatClauses }

\* What the file system holds at outputDir when the program starts: nothing
\* (and the directory can be created, or cannot), a directory that can be
\* written to, or one that cannot.  "created" is a directory made by
\* line 172.
OutDirAtStart == {"missing", "uncreatable", "writable", "readonly"}

\* sysInfo.dwNumberOfProcessors on a host with one processor, and the 0 that
\* std::max guards against
ProcessorCounts == {0, 1}

Max(a, b) == IF a >= b THEN a ELSE b

poolVars == << spawned, joined, summary, task_index, success_count, fail_count,
               console_mutex, fs, pc, localVars, histVars >>

\* lines 131-146: CoInitializeEx, the HEVC probe, and the test for an empty
\* command line
Startup ==
  /\ main_pc = "start"
  /\ \/ /\ console' = Append(console, Line("error_com", ""))
        /\ exitCode' = 1
        /\ main_pc' = "done"
     \/ /\ console' = Append(console, Line("error_hevc", ""))
        /\ exitCode' = 1
        /\ main_pc' = "done"
     \/ /\ Len(argv) = 0
        /\ console' = Append(console, Line("usage", ""))
        /\ exitCode' = 1
        /\ main_pc' = "done"
     \/ /\ Len(argv) > 0
        /\ main_pc' = "parse"
        /\ UNCHANGED << console, exitCode >>
  /\ UNCHANGED << cfgVars, poolVars >>

\* lines 148-171: the argument loop and the test for missing paths
ParseArguments ==
  /\ main_pc = "parse"
  /\ LET st == ParseArgs(argv, 1, ParseStart)
     IN  IF st.help
         THEN /\ console' = console \o st.out \o << Line("usage", "") >>
              /\ exitCode' = 0
              /\ main_pc' = "done"
              /\ UNCHANGED << mode, inputPaths, quality >>
         ELSE IF st.inputPaths = << >> \/ st.outputDir = ""
         THEN /\ console' = console \o st.out
                              \o << Line("error_arguments", ""), Line("usage", "") >>
              /\ exitCode' = 1
              /\ main_pc' = "done"
              /\ UNCHANGED << mode, inputPaths, quality >>
         ELSE /\ console' = console \o st.out
              /\ mode' = st.mode
              /\ inputPaths' = st.inputPaths
              /\ quality' = st.quality
              /\ main_pc' = "outdir"
              /\ UNCHANGED exitCode
  /\ UNCHANGED << filesToProcess, num_threads, argv, outDirAccess, poolVars >>

\* lines 172-187: the output directory is created when GetFileAttributesW
\* finds nothing there; then the mode line
PrepareOutput ==
  /\ main_pc = "outdir"
  /\ \/ /\ outDirAccess = "uncreatable"
        /\ console' = Append(console, Line("error_create_directory", outputDir))
        /\ exitCode' = 1
        /\ main_pc' = "done"
        /\ UNCHANGED outDirAccess
     \/ /\ outDirAccess # "uncreatable"
        /\ outDirAccess' = IF outDirAccess = "missing" THEN "created" ELSE outDirAccess
        /\ console' = Append(console, Line("mode", ""))
        /\ main_pc' = "enumerate"
        /\ UNCHANGED exitCode
  /\ UNCHANGED << mode, filesToProcess, num_threads, argv, inputPaths, quality,
                  poolVars >>

\* lines 189-205: the queue is built from the input paths
Enumerate ==
  /\ main_pc = "enumerate"
  /\ LET e == EnumerateInputs(inputPaths, 1, mode)
     IN  /\ filesToProcess' = e.files
         /\ IF e.files = << >>
            THEN /\ console' = console \o e.out \o << Line("no_files", "") >>
                 /\ exitCode' = 0
                 /\ main_pc' = "done"
            ELSE /\ console' = console \o e.out
                 /\ main_pc' = "pool"
                 /\ UNCHANGED exitCode
  /\ UNCHANGED << mode, num_threads, argv, inputPaths, outDirAccess, quality,
                  poolVars >>

\* lines 207-214: the number of threads and the shared atomics; the part of
\* the output directory the run works on is fixed here
StartPool ==
  /\ main_pc = "pool"
  /\ \E n \in ProcessorCounts : num_threads' = Max(1, n)
  /\ console' = Append(console, Line("found", ""))
  /\ task_index' = 0
  /\ success_count' = 0
  /\ fail_count' = 0
  /\ \E d \in (IF outDirAccess = "created" THEN {"empty"} ELSE OutputDirStates) :
       fs' = [p \in OutPaths(filesToProcess, mode) |-> InitialFile(d, p)]
  /\ pc' = [w \in 1 .. num_threads' |-> "unborn"]
  /\ index' = [w \in 1 .. num_threads' |-> 0]
  /\ final_success' = [w \in 1 .. num_threads' |-> FALSE]
  /\ status_message' = [w \in 1 .. num_threads' |-> ""]
  /\ handed' = [i \in Indices |-> 0]
  /\ renamed' = [i \in Indices |-> 0]
  /\ codecCalls' = [i \in Indices |-> 0]
  /\ folded' = [i \in Indices |-> << >>]
  /\ main_pc' = "spawn"
  /\ UNCHANGED << mode, filesToProcess, argv, inputPaths, outDirAccess, quality,
                  spawned, joined, summary, exitCode, console_mutex, com_ok >>

\* wmain before a thread exists
MainInit ==
  /\ argv \in CommandLines
  /\ outDirAccess \in OutDirAtStart
  /\ mode = "ToHeic"
  /\ quality = DefaultQuality
  /\ inputPaths = << >>
  /\ filesToProcess = << >>
  /\ num_threads = 0
  /\ main_pc = "start"
  /\ spawned = 0
  /\ joined = 0
  /\ summary = << -1, -1 >>
  /\ exitCode = -1
  /\ task_index = 0
  /\ success_count = 0
  /\ fail_count = 0
  /\ console_mutex = 0
  /\ console = << >>
  /\ fs = << >>
  /\ pc = << >>
  /\ index = << >>
  /\ final_success = << >>
  /\ status_message = << >>
  /\ com_ok = 0
  /\ handed = << >>
  /\ renamed = << >>
  /\ codecCalls = << >>
  /\ folded = << >>

MainNext ==
  \/ Startup
  \/ ParseArguments
  \/ PrepareOutput
  \/ Enumerate
  \/ StartPool
  \/ Next

\* The whole program on a host with one processor.
MainSpec == MainInit /\ [][MainNext]_vars


\* ================================================================ properties
AllJoined == main_pc \in {"summary", "exit", "done"}

\* at least one worker passed CoInitializeEx / none did
SomeInitialised == com_ok > 0
NoneInitialised == com_ok = 0

\* positions of a worker that holds a claimed index and has not yet written
\* its status line
BeforeLine == {"convert", "encoding", "delfinal", "move", "deltemp",
               "report_lock", "report_print"}
InTask == BeforeLine \cup {"count"}

Claimed == { i \in Indices : handed[i] > 0 }

\* the workers that hold index i
Holders(i) == { w \in Workers : pc[w] \in InTask /\ index[w] = i }

\* the status lines that carry ordinal i + 1
LinesOf(i) ==
  { k \in DOMAIN console : console[k].kind = "status" /\ console[k].ord = i + 1 }

\* ---------------------------------------------------------------- C1
\* C1: under every interleaving of the workers' fetch-and-increment claims
\* each index in [0,N) is handed to exactly one worker exactly once (an index
\* is handed out iff the cursor has passed it, never twice, never held by two
\* workers, and all of them are handed out once the cursor has reached N),
\* and a claim made when the cursor is at or past N hands out nothing: the
\* worker leaves its loop.
C1_HandedOnce ==
  /\ \A i \in Indices :
       /\ handed[i] <= 1
       /\ (handed[i] = 1) <=> (i < task_index)
       /\ Cardinality(Holders(i)) <= handed[i]
  /\ \A w \in Workers : pc[w] \in InTask => index[w] \in Indices
  /\ (\E w \in Workers : pc[w] = "done") /\ SomeInitialised /\ AllJoined
       => \A i \in Indices : handed[i] = 1

C1_ClaimStep ==
  \A w \in Workers :
    (pc[w] = "claim" /\ pc'[w] # "claim") =>
      IF task_index >= N
      THEN pc'[w] = "done" /\ handed' = handed
      ELSE /\ pc'[w] = "convert"
           /\ index'[w] = task_index
           /\ handed' = [handed EXCEPT ![task_index] = 1]

C1_ClaimNextExactlyOnce == [] C1_HandedOnce /\ [][C1_ClaimStep]_vars

\* two workers have drained a queue of two files and each has then been
\* refused a further index
C1_Witness ==
  /\ N = 2
  /\ num_threads = 2
  /\ handed[0] = 1 /\ handed[1] = 1
  /\ task_index = N + 2
  /\ \A w \in Workers : pc[w] = "done"
  /\ Len(console) = 2

\* ---------------------------------------------------------------- C2
\* C2 as stated: once all workers have joined, success_count + fail_count
\* equals N.
C2_SumIsN_AsStated ==
  AllJoined => success_count + fail_count = N

\* C2 amended: once all workers have joined, success_count + fail_count
\* equals the number of indices that were claimed; that number is N when at
\* least one worker initialised COM and 0 when none did.
C2_SumIsClaimed ==
  AllJoined =>
    /\ success_count + fail_count = Cardinality(Claimed)
    /\ SomeInitialised => success_count + fail_count = N
    /\ NoneInitialised => success_count + fail_count = 0

C2_Witness ==
  /\ AllJoined
  /\ N = 2
  /\ success_count = 1
  /\ fail_count = 1
  /\ num_threads = 2
  /\ com_ok = 1

\* ---------------------------------------------------------------- C3
\* C3: in every reachable state the file at every task's final output path is
\* the prior complete file, absent, or a complete newly encoded file, never a
\* partially written one.
C3_AtomicPublish ==
  \A i \in Indices : fs[Final(i)].kind \in {"prior", "absent", "new"}

\* ---------------------------------------------------------------- C4
\* C4: two workers that are processing tasks with distinct source paths of
\* the same input directory have different temporary paths and different
\* final paths.
C4_NoSharedPath ==
  \A w1, w2 \in Workers :
    ( /\ w1 # w2
      /\ pc[w1] \in InTask
      /\ pc[w2] \in InTask
      /\ Src(index[w1]) # Src(index[w2])
      /\ Src(index[w1]).dir = Src(index[w2]).dir )
    => /\ Temp(index[w1]) # Temp(index[w2])
       /\ Final(index[w1]) # Final(index[w2])

\* ---------------------------------------------------------------- C5
\* C5 as stated: ConvertImage is never invoked twice for the same index, and
\* once all workers have joined it has been invoked once for every index.
C5_AttemptedOnce_AsStated ==
  /\ \A i \in Indices : codecCalls[i] <= 1
  /\ AllJoined => \A i \in Indices : codecCalls[i] = 1

\* C5 amended: ConvertImage is never invoked twice for the same index (no
\* retry after a codec or rename failure); once all workers have joined it
\* has been invoked once for every index if at least one worker initialised
\* COM, and for no index if none did.
C5_AttemptedOnce ==
  /\ \A i \in Indices : codecCalls[i] <= 1
  /\ \A i \in Indices : folded[i] # << >> => codecCalls[i] = 1
  /\ AllJoined =>
       /\ SomeInitialised => \A i \in Indices : codecCalls[i] = 1
       /\ NoneInitialised => \A i \in Indices : codecCalls[i] = 0

\* all joined after both tasks failed (no final file was published), each
\* attempted once
C5_Witness ==
  /\ AllJoined
  /\ N = 2
  /\ fail_count = 2
  /\ \A i \in Indices : codecCalls[i] = 1
  /\ \A i \in Indices : fs[Final(i)].kind = "absent"

\* ---------------------------------------------------------------- C6
\* what one claimed index has produced so far: while its worker has not yet
\* written the line, no line and no counter increment; between the line and
\* the increment one line and no increment; once its worker has gone on, one
\* line and one increment.  The line carries ordinal i + 1 and total N, and
\* the increment is of the success counter iff the line says OK.
OneOutcome(i) ==
  /\ \A k \in LinesOf(i) : console[k].total = N
  /\ IF \E w \in Holders(i) : pc[w] \in BeforeLine
     THEN LinesOf(i) = {} /\ folded[i] = << >>
     ELSE IF \E w \in Holders(i) : pc[w] = "count"
     THEN Cardinality(LinesOf(i)) = 1 /\ folded[i] = << >>
     ELSE /\ Cardinality(LinesOf(i)) = 1
          /\ Len(folded[i]) = 1
          /\ \A k \in LinesOf(i) : console[k].ok = folded[i][1]

OutcomeAccounting ==
  /\ \A i \in Indices :
       IF handed[i] = 0
       THEN LinesOf(i) = {} /\ folded[i] = << >>
       ELSE OneOutcome(i)
  /\ \A k \in DOMAIN console :
       console[k].kind = "status" => console[k].ord \in 1 .. N
  /\ success_count = Cardinality({ i \in Indices : folded[i] = << TRUE >> })
  /\ fail_count = Cardinality({ i \in Indices : folded[i] = << FALSE >> })

\* the line and the increment of an index are made by the worker that holds
\* it, the line first, and the worker claims again only after the increment
OwnOutcomeStep ==
  /\ (\E k \in DOMAIN console' : k > Len(console) /\ console'[k].kind = "status")
       => \E w \in Workers : pc[w] = "report_print" /\ pc'[w] = "count"
  /\ \A w \in Workers :
    /\ (pc[w] = "report_print" /\ pc'[w] # "report_print") =>
         /\ pc'[w] = "count"
         /\ index'[w] = index[w]
         /\ console' = Append(console, [kind |-> "status", ord |-> index[w] + 1,
                                        total |-> N, ok |-> final_success[w]])
    /\ (pc[w] = "count" /\ pc'[w] # "count") =>
         /\ folded' = [folded EXCEPT ![index[w]] = << final_success[w] >>]
         /\ success_count' + fail_count' = success_count + fail_count + 1
         /\ success_count' = success_count + (IF final_success[w] THEN 1 ELSE 0)
    /\ (pc'[w] = "convert" /\ pc[w] # "convert") => pc[w] = "claim"
    /\ (pc'[w] = "claim" /\ pc[w] # "claim") => pc[w] \in {"init", "count"}

\* C6 as stated: every claimed index gets exactly one status line (ordinal
\* index+1, total N) and exactly one counter increment from its claimer
\* before that worker claims again, and after join the status lines carry
\* each ordinal 1..N exactly once.
C6_OneOutcome_AsStated ==
  /\ OutcomeAccounting
  /\ AllJoined => \A i \in Indices : Cardinality(LinesOf(i)) = 1

\* C6 amended: as stated, except that after join the status lines carry each
\* ordinal 1..N exactly once when at least one worker initialised COM, and
\* there is no status line at all when none did.
C6_AfterJoin ==
  /\ OutcomeAccounting
  /\ AllJoined =>
       /\ SomeInitialised => \A i \in Indices : Cardinality(LinesOf(i)) = 1
       /\ NoneInitialised => \A i \in Indices : LinesOf(i) = {}

C6_OneOutcome == [] C6_AfterJoin /\ [][OwnOutcomeStep]_vars

\* both indices have been reported, index 1 first and FAILED, index 0 after
\* it and OK
C6_Witness ==
  /\ AllJoined
  /\ N = 2
  /\ Len(console) = 2
  /\ console[1].kind = "status" /\ console[1].ord = 2 /\ ~console[1].ok
  /\ console[2].kind = "status" /\ console[2].ord = 1 /\ console[2].ok
  /\ folded[0] = << TRUE >>
  /\ folded[1] = << FALSE >>

\* ---------------------------------------------------------------- C7
\* C7: after a worker has recorded a failed outcome its next step is another
\* claim on the cursor, and a worker leaves its loop only by a claim that
\* returns an index >= N.
C7_Step ==
  \A w \in Workers :
    /\ (pc[w] = "count" /\ ~final_success[w] /\ pc'[w] # "count") => pc'[w] = "claim"
    /\ (pc[w] \in InTask \cup {"claim"} /\ pc'[w] = "done") =>
         (pc[w] = "claim" /\ task_index >= N)
    /\ (pc[w] \in InTask /\ pc'[w] # pc[w]) => pc'[w] \in InTask \cup {"claim"}

C7_FailureNeverStops == [][C7_Step]_vars

\* the only worker has had its first task fail, and has gone on to claim and
\* convert the second
C7_Witness ==
  /\ N = 2
  /\ num_threads = 1
  /\ folded[0] = << FALSE >>
  /\ pc[1] = "delfinal"
  /\ index[1] = 1

\* ---------------------------------------------------------------- C8
\* C8: when a failed status line is written the task's temporary file does
\* not exist, and after all workers have joined no temporary file of a failed
\* task exists.
C8_TempRemovedOnFailure ==
  /\ \A w \in Workers :
       (pc[w] = "report_print" /\ ~final_success[w]) => ~Exists(Temp(index[w]))
  /\ AllJoined =>
       \A i \in Indices : folded[i] = << FALSE >> => ~Exists(Temp(i))

\* ---------------------------------------------------------------- C9
\* C9: at most one worker is inside a section that writes a line (the status
\* line or the initialisation error line), that worker holds console_mutex,
\* and a worker that has written its line no longer holds it.
InConsoleSection(w) == pc[w] \in {"initerr_print", "report_print"}

C9_ConsoleMutualExclusion ==
  /\ Cardinality({ w \in Workers : InConsoleSection(w) }) <= 1
  /\ \A w \in Workers : InConsoleSection(w) <=> console_mutex = w

\* one worker is writing its status line while another waits for the lock
\* to print its initialisation error
C9_Witness ==
  \E w1, w2 \in Workers :
    /\ pc[w1] = "report_print"
    /\ pc[w2] = "initerr_lock"
    /\ console_mutex = w1

\* ---------------------------------------------------------------- C10
\* C10: the counters are read for the summary only after every launched
\* worker has terminated: from the read on all workers are done, the summary
\* is the last line, and it reports the counters' final values.
C10_SummaryAfterJoin ==
  /\ main_pc = "summary" => \A w \in Workers : pc[w] = "done"
  /\ main_pc \in {"exit", "done"} =>
       /\ \A w \in Workers : pc[w] = "done"
       /\ task_index >= N \/ NoneInitialised
       /\ summary = << success_count, fail_count >>
       /\ console # << >>
       /\ console[Len(console)] = SummaryLine(success_count, fail_count)
       /\ \A k \in 1 .. (Len(console) - 1) : console[k].kind # "summary"

C10_Witness ==
  /\ main_pc = "done"
  /\ num_threads = 2
  /\ summary = << 1, 1 >>
  /\ com_ok = 2

\* ---------------------------------------------------------------- C11
\* the summary line has been printed
SummaryPrinted == main_pc \in {"exit", "done"}

\* the cursor is past the end and every index has its line and its increment
Exhausted ==
  /\ task_index >= N
  /\ \A i \in Indices : Cardinality(LinesOf(i)) = 1 /\ Len(folded[i]) = 1

\* a worker ends only when its fetch returned an index past the end of the
\* queue, or after the error line of its own failed initialisation
StopStep ==
  \A w \in Workers :
    (pc'[w] = "done" /\ pc[w] # "done") =>
      \/ pc[w] = "claim" /\ QueueExhausted(task_index)
      \/ pc[w] = "initerr_print"

\* C11 as stated, its safety part: once the summary is printed the queue is
\* exhausted, the cursor is at least N and every index has an outcome.
C11_Exhausted_AsStated == SummaryPrinted => Exhausted

\* C11 amended: under fair scheduling every run of the pool reaches the
\* state where all workers have terminated and the summary is printed; at
\* that point the queue is exhausted if at least one worker initialised COM,
\* and untouched (cursor 0, no outcome) if none did; a worker stops only on
\* an exhausted queue or on its own failed initialisation.
C11_Terminates ==
  /\ <>(main_pc = "done")
  /\ [](SummaryPrinted =>
          /\ \A w \in Workers : pc[w] = "done"
          /\ SomeInitialised => Exhausted
          /\ NoneInitialised =>
               /\ task_index = 0
               /\ \A i \in Indices : LinesOf(i) = {} /\ folded[i] = << >>)
  /\ [][StopStep]_vars

\* the run ended with a worker that failed to initialise and another that
\* worked the whole queue
C11_Witness ==
  /\ main_pc = "done"
  /\ num_threads = 2
  /\ com_ok = 1
  /\ N = 2
  /\ Exhausted

\* ---------------------------------------------------------------- C12
\* the last queue entry that is written to the final path of entry i: the
\* one whose encoding a single worker, which takes the queue in order,
\* leaves at that path
LastWriter(i) ==
  CHOOSE j \in Indices :
    /\ Final(j) = Final(i)
    /\ \A k \in Indices : Final(k) = Final(i) => k <= j

\* every ConvertImage call and every rename of the run succeeded
AllTasksOK == \A i \in Indices : folded[i] = << TRUE >>

\* C12: for a fixed input list and mode and a codec that succeeds, the
\* content of every final output file after the run does not depend on the
\* initial state of the output directory nor on the interleaving of the
\* workers: it is the content a single worker produces.
C12_ResultIsDetermined ==
  (main_pc = "done" /\ AllTasksOK) =>
    \A i \in Indices : fs[Final(i)] = Complete(Src(LastWriter(i)))

\* ---------------------------------------------------------------- C17
\* the tasks whose MoveFileW succeeded
Renamed == { i \in Indices : renamed[i] > 0 }

\* what is counted agrees with the renames: a success is a task whose rename
\* succeeded, a failure one whose rename did not happen or failed
CountedAsRenamed ==
  /\ \A i \in Indices :
       /\ renamed[i] <= 1
       /\ folded[i] = << TRUE >> => i \in Renamed
       /\ folded[i] = << FALSE >> => i \notin Renamed
  /\ \A w \in Workers :
       pc[w] \in {"report_lock", "report_print", "count"} =>
         /\ final_success[w] <=> index[w] \in Renamed
         /\ final_success[w] <=> IsOK(status_message[w])
  /\ AllJoined =>
       /\ success_count = Cardinality(Renamed)
       /\ fail_count = Cardinality(Claimed \ Renamed)

\* the rename is attempted only after ConvertImage returned success with the
\* complete temporary file, it alone sets final_success, and both failure
\* paths leave final_success false
RenameStep ==
  \A w \in Workers :
    /\ (pc'[w] = "delfinal" /\ pc[w] # "delfinal") =>
         /\ pc[w] = "encoding"
         /\ fs'[Temp(index[w])] = Complete(Src(index[w]))
    /\ (pc'[w] = "move" /\ pc[w] # "move") => pc[w] = "delfinal"
    /\ (final_success'[w] /\ ~final_success[w]) =>
         /\ pc[w] = "move"
         /\ CanMove(fs, Temp(index[w]), Final(index[w]), w)
         /\ fs' = MoveFile(fs, Temp(index[w]), Final(index[w]))
         /\ renamed'[index[w]] = renamed[index[w]] + 1
    /\ (pc'[w] = "deltemp" /\ pc[w] # "deltemp") =>
         /\ pc[w] \in {"convert", "encoding", "move"}
         /\ ~final_success'[w]
         /\ renamed' = renamed

\* C17: a task is counted as a success iff ConvertImage succeeded and the
\* rename of the temporary path to the final path succeeded, and as a failure
\* in every other case; after join success_count is the number of tasks whose
\* rename succeeded.
C17_SuccessIffRenamed == [] CountedAsRenamed /\ [][RenameStep]_vars

\* one task was renamed and counted as a success; another was encoded, its
\* rename was refused, and its worker is about to count it as a failure
C17_Witness ==
  \E w \in Workers, j \in Indices :
    /\ pc[w] = "count"
    /\ index[w] # j
    /\ status_message[w] = StatusOfMoveError("ERROR_ACCESS_DENIED")
    /\ ~final_success[w]
    /\ renamed[index[w]] = 0
    /\ folded[j] = << TRUE >>
    /\ renamed[j] = 1

\* ---------------------------------------------------------------- C18
\* the messages of a task whose ConvertImage call failed
CodecFailureMessages ==
  { StatusOfHr(hr) : hr \in EarlyFailures \cup LateFailures
                              \cup {"ERROR_SHARING_VIOLATION"} }

\* the workers that are on the failure path of ConvertImage
CodecFailed(w) ==
  /\ pc[w] \in {"deltemp", "report_lock", "report_print", "count"}
  /\ status_message[w] \in CodecFailureMessages

\* a final path changes only in the DeleteFileW or MoveFileW step of a worker
\* that holds a task with this final path, and a worker reaches these steps
\* only from a ConvertImage call that returned success
FinalFrameStep ==
  /\ \A i \in Indices :
       fs'[Final(i)] # fs[Final(i)] =>
         \E w \in Workers :
           /\ pc[w] \in {"delfinal", "move"}
           /\ pc'[w] # pc[w]
           /\ Final(index[w]) = Final(i)
  /\ \A w \in Workers :
       /\ (pc'[w] = "delfinal" /\ pc[w] # "delfinal") =>
            /\ pc[w] = "encoding"
            /\ fs'[Temp(index[w])] = Complete(Src(index[w]))
       /\ (pc'[w] = "move" /\ pc[w] # "move") => pc[w] = "delfinal"
       /\ (CodecFailed(w) /\ pc'[w] # pc[w]) =>
            /\ pc'[w] \notin {"delfinal", "move"}
            /\ \/ pc'[w] \in {"claim", "done"}
               \/ CodecFailed(w)'

\* C18: when ConvertImage fails for a task, its worker leaves the final
\* output path as it was, and a file at the final path is deleted only by a
\* worker whose ConvertImage call has returned success.
C18_FinalUntouchedOnFailure == [][FinalFrameStep]_vars

\* ConvertImage failed after opening its output, and the file a prior run
\* left at the final path is still there
C18_Witness ==
  \E w \in Workers :
    /\ pc[w] = "report_lock"
    /\ status_message[w] = StatusOfHr("ERROR_DISK_FULL")
    /\ fs[Final(index[w])] = Prior
    /\ fs[Temp(index[w])] = Absent

\* ---------------------------------------------------------------- C19
\* the error lines of failed initialisations on stdout
InitErrorLines == { k \in DOMAIN console : console[k].kind = "initerr" }

\* the workers that failed CoInitializeEx and have not returned yet
InInitError == { w \in Workers : pc[w] \in {"initerr_lock", "initerr_print"} }

\* the workers that have left CoInitializeEx
PastInit == { w \in Workers : pc[w] \notin {"unborn", "init"} }

\* every worker past CoInitializeEx either initialised or failed, and each
\* failed one prints one error line
InitFailureAccounting ==
  /\ com_ok <= Cardinality(PastInit)
  /\ Cardinality(InitErrorLines) + Cardinality(InInitError)
       = Cardinality(PastInit) - com_ok
  /\ NoneInitialised =>
       /\ task_index = 0
       /\ success_count + fail_count = 0
       /\ Claimed = {}
  /\ AllJoined =>
       /\ task_index = (IF SomeInitialised THEN N + com_ok ELSE 0)
       /\ SomeInitialised =>
            \A i \in Indices :
              Cardinality(LinesOf(i)) = 1 /\ Len(folded[i]) = 1
  /\ main_pc = "done" => exitCode = 0
  /\ (main_pc = "done" /\ NoneInitialised) =>
       /\ summary = << 0, 0 >>
       /\ Cardinality(InitErrorLines) = num_threads

\* a worker whose initialisation failed takes the lock, prints its line and
\* returns: its steps leave the cursor and the counters alone
InitFailureStep ==
  \A w \in Workers :
    (w \in InInitError /\ pc'[w] # pc[w]) =>
      /\ task_index' = task_index
      /\ success_count' = success_count
      /\ fail_count' = fail_count
      /\ handed' = handed
      /\ folded' = folded
      /\ fs' = fs
      /\ \/ pc[w] = "initerr_lock" /\ pc'[w] = "initerr_print"
            /\ console_mutex' = w /\ console' = console
         \/ pc[w] = "initerr_print" /\ pc'[w] = "done"
            /\ console_mutex = w
            /\ console' = Append(console, InitErrorLine(w))

\* C19: a worker whose initialisation fails only prints one error line under
\* the lock and returns, without touching the cursor or the counters; if at
\* least one worker initialised, every index has an outcome after join; if
\* none did, the run ends with success_count + fail_count = 0 and exit
\* code 0.
C19_InitFailure == [] InitFailureAccounting /\ [][InitFailureStep]_vars

\* the run ended with exit code 0 after every worker failed to initialise
C19_Witness ==
  /\ main_pc = "done"
  /\ exitCode = 0
  /\ num_threads = 2
  /\ NoneInitialised
  /\ N = 2
  /\ Len(console) = 3

\* ---------------------------------------------------------------- C20
\* the status lines on stdout
StatusLines == { k \in DOMAIN console : console[k].kind = "status" }

Min(a, b) == IF a <= b THEN a ELSE b

AccountingOrder ==
  /\ success_count + fail_count <= Cardinality(StatusLines)
  /\ Cardinality(StatusLines) <= Cardinality(Claimed)
  /\ Cardinality(Claimed) = Min(task_index, N)
  /\ \A i \in Indices : Len(folded[i]) <= Cardinality(LinesOf(i))
  /\ task_index >= 0
  /\ task_index <= N + num_threads

\* C20: in every reachable state success_count + fail_count <= number of
\* status lines <= number of claimed indices = min(cursor, N), the increment
\* of a task comes after its status line, and the cursor never decreases and
\* never exceeds N + the number of workers.
C20_AccountingOrder ==
  [] AccountingOrder /\ [][task_index' >= task_index]_vars

\* one worker has left the loop with the cursor past N while the other has
\* printed its status line and not yet counted it
C20_Witness ==
  /\ N = 2
  /\ task_index = N + 1
  /\ Cardinality(StatusLines) = 2
  /\ success_count + fail_count = 1
  /\ \E w \in Workers : pc[w] = "count"

\* ================================================================ wmain's front end
\* the run came as far as the test of the output directory
ReachedOutputCheck ==
  \E k \in DOMAIN console : console[k].kind \in {"error_create_directory", "mode"}

\* a thread was created, an index claimed or ConvertImage called
PoolTouched ==
  \/ spawned > 0
  \/ task_index > 0
  \/ \E i \in DOMAIN codecCalls : codecCalls[i] > 0

\* ---------------------------------------------------------------- C13
\* C13: if the output directory is unwritable, absent and impossible to
\* create or present and impossible to write to, the run does not get past
\* the test of the output directory: it ends there with exit code 1, no
\* worker is started, no index is claimed and ConvertImage is never called.
C13_UnwritableAborts ==
  outDirAccess \in {"uncreatable", "readonly"} =>
    /\ main_pc \in {"start", "parse", "outdir", "done"}
    /\ ~PoolTouched
    /\ (main_pc = "done" /\ ReachedOutputCheck) => exitCode = 1

\* ---------------------------------------------------------------- C14
\* the enumeration of the input paths is over
EnumerationDone ==
  \/ main_pc \in {"pool", "spawn", "join", "summary", "exit"}
  \/ main_pc = "done" /\ \E k \in DOMAIN console : console[k].kind \in {"no_files", "found"}

\* the files the enumeration meets: a file named after -i, and the files
\* directly in a directory named after -i
Encountered ==
  UNION { IF GetFileAttributes(inputPaths[k]) = "FILE_ATTRIBUTE_NORMAL"
          THEN { FileOf(inputPaths[k]) }
          ELSE IF GetFileAttributes(inputPaths[k]) = "FILE_ATTRIBUTE_DIRECTORY"
          THEN { src \in { AllSources[j] : j \in DOMAIN AllSources } :
                   src.dir = inputPaths[k] }
          ELSE {} : k \in DOMAIN inputPaths }

Queued == { filesToProcess[k] : k \in DOMAIN filesToProcess }

WarnedUnsupported(f) ==
  \E k \in DOMAIN console :
    console[k].kind = "warning_unsupported" /\ console[k].path = f

\* C14: after the enumeration, every file that was named on the command line
\* or found in a named directory is in the queue iff its lower-cased
\* extension is supported in the active mode, and there is a warning line for
\* every such file that is not in the queue.
C14_QueuedOrWarned ==
  EnumerationDone =>
    \A f \in Encountered :
      /\ f \in Queued <=> IsSupportedInputFile(f, mode)
      /\ ~IsSupportedInputFile(f, mode) => WarnedUnsupported(f)

\* ---------------------------------------------------------------- C15
\* -h or --help stands where an option is read: it is the first argument, or
\* the argument before it is not an option that takes the next argument as
\* its value
HelpGiven ==
  \E k \in DOMAIN argv :
    /\ argv[k] \in {"-h", "--help"}
    /\ k > 1 => argv[k - 1] \notin {"-o", "-q", "--to"}

UsagePrinted == \E k \in DOMAIN console : console[k].kind = "usage"

\* CoInitializeEx or the HEVC probe of lines 131-144 failed
StartupFailed ==
  \E k \in DOMAIN console : console[k].kind \in {"error_com", "error_hevc"}

\* the run stays in front of the output directory test and the pool, and
\* ends with the usage printed and exit code 0
HelpRun ==
  /\ ~PoolTouched
  /\ main_pc \in {"start", "parse", "done"}
  /\ main_pc = "done" => (exitCode = 0 /\ UsagePrinted)

\* C15 as stated: whenever -h or --help is given as an option, the program
\* ends with the usage printed and exit code 0 and without a worker started,
\* whatever the other arguments are and whatever the capability probe
\* returned.
C15_HelpExitsZero_AsStated == HelpGiven => HelpRun

\* C15 amended: the same when CoInitializeEx and the capability probe, which
\* both come before the arguments are read, succeeded; when one of them
\* fails the program ends with exit code 1 and no usage.
C15_HelpExitsZero ==
  /\ (HelpGiven /\ ~StartupFailed) => HelpRun
  /\ StartupFailed => (main_pc = "done" /\ exitCode = 1 /\ ~UsagePrinted
                        /\ ~PoolTouched)

\* --help came last on a command line with input, output and an invalid
\* quality: the warning and the usage were printed and the exit code is 0
C15_Witness ==
  /\ main_pc = "done"
  /\ exitCode = 0
  /\ Len(argv) >= 6
  /\ argv[Len(argv)] = "--help"
  /\ UsagePrinted
  /\ \E k \in DOMAIN console : console[k].kind = "warning_quality_invalid"

\* ---------------------------------------------------------------- C16
\* the arguments were read and the run went on to the output directory
PastParse == main_pc = "outdir" \/ ReachedOutputCheck

\* the -q values that are decimal numerals of a number v with 0 <= v <= 100,
\* and v / 100 in hundredths
InRangeNumerals == {"0", "50", "100"}

Hundredths(arg) ==
  CASE arg = "0" -> 0
    [] arg = "50" -> 50
    [] arg = "100" -> 100

QualityWarned ==
  \E k \in DOMAIN console :
    console[k].kind \in {"warning_quality_range", "warning_quality_invalid"}

\* C16: with -q v, the quality handed to the workers is v / 100 and there is
\* no warning when v is a number with 0 <= v <= 100; when v is a number
\* outside this range or is not a number, a warning is printed and the
\* quality is the one used when no -q is given.
C16_QualityNormalised ==
  PastParse =>
    /\ (\A k \in DOMAIN argv : argv[k] # "-q") =>
         (quality = DefaultQuality /\ ~QualityWarned)
    /\ \A k \in DOMAIN argv :
         (argv[k] = "-q" /\ k < Len(argv)) =>
           IF argv[k + 1] \in InRangeNumerals
           THEN quality = Hundredths(argv[k + 1]) /\ ~QualityWarned
           ELSE quality = DefaultQuality /\ QualityWarned

====
